---------------------------- MODULE Spec2Model ----------------------------
(***************************************************************************)
(* A model of src/app.py, the OSCE station uploader and parser: the        *)
(* per-file reading loop, the retry loop around the completion call, the   *)
(* cleaning and decoding of the model's answer, the assembly of data_list, *)
(* the review gate and the upsert loop; and the chat handler that waits    *)
(* for a run of the assistant.                                             *)
(*                                                                         *)
(* The completion client, the document readers and the store are taken as  *)
(* given: each call of theirs returns or raises, and the model draws which. *)
(*                                                                         *)
(* Text is a sequence of one-character strings, so that str.strip,         *)
(* str.replace and json.loads are computed character by character.         *)
(* A decoded JSON value is a record [kind, text, items]:                   *)
(*   kind "str"  text = the decoded characters                             *)
(*   kind "num"  text = the numeral                                        *)
(*   kind "lit"  text = null, true or false                                *)
(*   kind "obj"  items = the members <<[key, val], ...>> in dict order     *)
(*   kind "arr"  items = the elements, each with key <<>>                  *)
(* The decoder covers the JSON that can be written with the characters of  *)
(* the inputs below: objects, arrays, strings with the escapes \" \\ \/    *)
(* \n \t, integers and the three literals.                                 *)
(***************************************************************************)
EXTENDS Integers, Sequences, FiniteSets, TLC

VARIABLES
    n_files,          \* len(uploaded_files); a file's type is drawn when the
                      \* loop reaches it
    file_type,        \* uploaded_file.type of the file the loop is at
    pc,               \* "files" | "attempt" | "upload" | "done"
    fi,               \* position of the for loop over uploaded_files (1-based)
    attempt,          \* the retry loop's variable (0-based, as range() gives it)
    data_list,        \* the assembled batch
    any_errors,       \* the batch-level error flag
    clicked,          \* what st.button returned in this run
    ui,               \* position of the for loop over data_list (1-based)
    upload_errors,    \* the upload loop's error flag
    response,         \* the last answer of the store
    calls,            \* completion calls made for the current file
    delays,           \* time.sleep(retry_delay) calls made for the current file
    got,              \* the answers received for the current file, in order
    before,           \* data_list as it was when the current file was started
    msgs,             \* what st.* displayed for the current file
    status,           \* per file, how its processing ended
    sent,             \* the records handed to upsert, in order
    results,          \* per upserted record, what was displayed
    store_failed,     \* whether some upsert so far raised or answered an error
    summary,          \* the message that ends the run
    previewed,        \* whether st.json(data_list) displayed the batch
    messages,         \* st.session_state.messages, the chat so far
    chat_pc,          \* the chat handler: "idle" | "polling"
    run_status,       \* run.status as the handler last read it
    polls             \* runs.retrieve calls made for the current run

vars == <<n_files, file_type, pc, fi, attempt, data_list, any_errors, clicked, ui,
          upload_errors, response, calls, delays, got, before, msgs, status,
          sent, results, store_failed, summary, previewed, messages, chat_pc,
          run_status, polls>>

\* the state of the chat handler, and the state of the pipeline
chat_vars == <<messages, chat_pc, run_status, polls>>
pipeline_vars ==
    <<n_files, file_type, pc, fi, attempt, data_list, any_errors, clicked, ui,
      upload_errors, response, calls, delays, got, before, msgs, status,
      sent, results, store_failed, summary, previewed>>

---------------------------------------------------------------------------
(* Bounds of the model *)

MaxFiles == 3
\* chat turns in one session, and runs.retrieve calls in one turn
MaxChats == 2
MaxPolls == 3

---------------------------------------------------------------------------
(* Python's str methods, on sequences of characters *)

Whitespace == {" ", "\n", "\t"}

Min(S) == CHOOSE x \in S : \A y \in S : x <= y
Max(S) == CHOOSE x \in S : \A y \in S : x >= y

\* s.strip(): from the first to the last character that is not whitespace
Strip(s) ==
    LET keep == {i \in 1..Len(s) : s[i] \notin Whitespace} IN
    IF keep = {} THEN <<>> ELSE SubSeq(s, Min(keep), Max(keep))

\* whether old occurs in s at position i
OccursAt(s, old, i) ==
    i + Len(old) - 1 <= Len(s) /\ SubSeq(s, i, i + Len(old) - 1) = old

\* s.replace(old, ""): every non-overlapping occurrence, leftmost first
RECURSIVE Remove(_, _)
Remove(s, old) ==
    LET found == {i \in 1..Len(s) : OccursAt(s, old, i)} IN
    IF found = {} THEN s
    ELSE SubSeq(s, 1, Min(found) - 1)
         \o Remove(SubSeq(s, Min(found) + Len(old), Len(s)), old)

\* the backtick character (a string literal of the module cannot hold it)
BT == "BACKTICK"

Fence == <<BT, BT, BT>>
FenceJson == <<BT, BT, BT, "j", "s", "o", "n">>

\* Clean with the json fence forgotten: only .replace(Fence, "")
CleanFenceOnly(content) == Strip(Remove(Strip(content), Fence))

\* .strip(), then .replace(FenceJson, "").replace(Fence, "").strip()
Clean(content) == Strip(Remove(Remove(Strip(content), FenceJson), Fence))

---------------------------------------------------------------------------
(* json.loads *)

JStr(s) == [kind |-> "str", text |-> s, items |-> <<>>]
JNum(s) == [kind |-> "num", text |-> s, items |-> <<>>]
JLit(s) == [kind |-> "lit", text |-> s, items |-> <<>>]
JObj(m) == [kind |-> "obj", text |-> <<>>, items |-> m]
JArr(m) == [kind |-> "arr", text |-> <<>>, items |-> m]

LitNull == <<"n", "u", "l", "l">>
LitTrue == <<"t", "r", "u", "e">>
LitFalse == <<"f", "a", "l", "s", "e">>

Fail == [ok |-> FALSE, val |-> JLit(LitNull), next |-> 0]
Ok(v, n) == [ok |-> TRUE, val |-> v, next |-> n]

Digits == {"0", "1", "2", "3", "4", "5", "6", "7", "8", "9"}

\* the character at position i, "" past the end
At(t, i) == IF i >= 1 /\ i <= Len(t) THEN t[i] ELSE ""

RECURSIVE SkipWs(_, _)
SkipWs(t, i) == IF At(t, i) \in Whitespace THEN SkipWs(t, i + 1) ELSE i

\* what a backslash escape stands for; "" when it is no escape
Unescape(c) ==
    CASE c = "\"" -> "\""
      [] c = "\\" -> "\\"
      [] c = "/" -> "/"
      [] c = "n" -> "\n"
      [] c = "t" -> "\t"
      [] OTHER -> ""

\* the string whose opening quote is at i - 1; a raw control character or a
\* missing closing quote is a decode error
RECURSIVE ScanString(_, _, _)
ScanString(t, i, acc) ==
    LET c == At(t, i) IN
    IF c = "" THEN Fail
    ELSE IF c = "\"" THEN Ok(JStr(acc), i + 1)
    ELSE IF c \in {"\n", "\t"} THEN Fail
    ELSE IF c = "\\"
         THEN IF Unescape(At(t, i + 1)) = "" THEN Fail
              ELSE ScanString(t, i + 2, Append(acc, Unescape(At(t, i + 1))))
    ELSE ScanString(t, i + 1, Append(acc, c))

RECURSIVE ScanDigits(_, _)
ScanDigits(t, i) == IF At(t, i) \in Digits THEN ScanDigits(t, i + 1) ELSE i

\* -?(0|[1-9][0-9]*)
ScanNumber(t, i) ==
    LET d == IF At(t, i) = "-" THEN i + 1 ELSE i
        e == IF At(t, d) = "0" THEN d + 1 ELSE ScanDigits(t, d)
    IN IF e = d THEN Fail ELSE Ok(JNum(SubSeq(t, i, e - 1)), e)

\* dict assignment d[key] = val: a key already there keeps its place and
\* takes the new value
RECURSIVE SetItem(_, _, _)
SetItem(m, key, val) ==
    IF m = <<>> THEN <<[key |-> key, val |-> val]>>
    ELSE IF Head(m).key = key
         THEN <<[key |-> key, val |-> val]>> \o Tail(m)
         ELSE <<Head(m)>> \o SetItem(Tail(m), key, val)

RECURSIVE ScanValue(_, _)
RECURSIVE ScanMembers(_, _, _)
RECURSIVE ScanElements(_, _, _)

\* the members of an object, i at the opening quote of the next key
ScanMembers(t, i, acc) ==
    IF At(t, i) # "\"" THEN Fail
    ELSE LET k == ScanString(t, i + 1, <<>>) IN
         IF ~k.ok THEN Fail
         ELSE LET c == SkipWs(t, k.next) IN
              IF At(t, c) # ":" THEN Fail
              ELSE LET v == ScanValue(t, SkipWs(t, c + 1)) IN
                   IF ~v.ok THEN Fail
                   ELSE LET m == SetItem(acc, k.val.text, v.val)
                            e == SkipWs(t, v.next)
                        IN IF At(t, e) = "}" THEN Ok(JObj(m), e + 1)
                           ELSE IF At(t, e) = ","
                                THEN ScanMembers(t, SkipWs(t, e + 1), m)
                                ELSE Fail

\* the elements of an array, i at the start of the next element
ScanElements(t, i, acc) ==
    LET v == ScanValue(t, i) IN
    IF ~v.ok THEN Fail
    ELSE LET m == Append(acc, [key |-> <<>>, val |-> v.val])
             e == SkipWs(t, v.next)
         IN IF At(t, e) = "]" THEN Ok(JArr(m), e + 1)
            ELSE IF At(t, e) = ","
                 THEN ScanElements(t, SkipWs(t, e + 1), m)
                 ELSE Fail

ScanValue(t, i) ==
    LET c == At(t, i) IN
    IF c = "\"" THEN ScanString(t, i + 1, <<>>)
    ELSE IF c = "{"
         THEN IF At(t, SkipWs(t, i + 1)) = "}"
              THEN Ok(JObj(<<>>), SkipWs(t, i + 1) + 1)
              ELSE ScanMembers(t, SkipWs(t, i + 1), <<>>)
    ELSE IF c = "["
         THEN IF At(t, SkipWs(t, i + 1)) = "]"
              THEN Ok(JArr(<<>>), SkipWs(t, i + 1) + 1)
              ELSE ScanElements(t, SkipWs(t, i + 1), <<>>)
    ELSE IF c = "-" \/ c \in Digits THEN ScanNumber(t, i)
    ELSE IF OccursAt(t, LitNull, i) THEN Ok(JLit(LitNull), i + 4)
    ELSE IF OccursAt(t, LitTrue, i) THEN Ok(JLit(LitTrue), i + 4)
    ELSE IF OccursAt(t, LitFalse, i) THEN Ok(JLit(LitFalse), i + 5)
    ELSE Fail

\* json.loads(t): one value, whitespace around it, nothing after it;
\* ok = FALSE stands for json.JSONDecodeError
Loads(t) ==
    LET r == ScanValue(t, SkipWs(t, 1)) IN
    IF r.ok /\ SkipWs(t, r.next) = Len(t) + 1 THEN r ELSE Fail

DigitSeq == <<"0", "1", "2", "3", "4", "5", "6", "7", "8", "9">>
DigitValue(c) ==
    IF c \in Digits THEN (CHOOSE i \in 1..10 : DigitSeq[i] = c) - 1 ELSE 0

\* the number an integer key stands for
RECURSIVE KeyNumber(_)
KeyNumber(k) ==
    IF k = <<>> THEN 0
    ELSE 10 * KeyNumber(SubSeq(k, 1, Len(k) - 1)) + DigitValue(k[Len(k)])

\* Flatten with the stations sorted by the number of their key
FlattenSorted(parsed_data) ==
    IF parsed_data.kind = "obj"
    THEN LET m == parsed_data.items
             Rank(j) == 1 + Cardinality({l \in 1..Len(m) :
                                KeyNumber(m[l].key) < KeyNumber(m[j].key)})
         IN [i \in 1..Len(m) |-> m[CHOOSE j \in 1..Len(m) : Rank(j) = i].val]
    ELSE <<parsed_data>>

\* Flatten taking records from a dict alone
FlattenDictOnly(parsed_data) ==
    IF parsed_data.kind = "obj"
    THEN [i \in 1..Len(parsed_data.items) |-> parsed_data.items[i].val]
    ELSE <<>>

\* Flatten appending what iterating a dict gives, its keys
FlattenKeys(parsed_data) ==
    IF parsed_data.kind = "obj"
    THEN [i \in 1..Len(parsed_data.items) |-> JStr(parsed_data.items[i].key)]
    ELSE <<parsed_data>>

\* the records one decoded answer adds to data_list
Flatten(parsed_data) ==
    IF parsed_data.kind = "obj"
    THEN [i \in 1..Len(parsed_data.items) |-> parsed_data.items[i].val]
    ELSE <<parsed_data>>

---------------------------------------------------------------------------
(* The answers of the completion client *)

Q == "\""
Quoted(s) == <<Q>> \o s \o <<Q>>

\* the six fields the prompt asks for
actorBrief == <<"a", "c", "t", "o", "r", "B", "r", "i", "e", "f">>
examinerBrief == <<"e", "x", "a", "m", "i", "n", "e", "r", "B", "r", "i", "e", "f">>
markscheme == <<"m", "a", "r", "k", "s", "c", "h", "e", "m", "e">>
category == <<"c", "a", "t", "e", "g", "o", "r", "y">>
stationName == <<"s", "t", "a", "t", "i", "o", "n", "N", "a", "m", "e">>
candidateBrief == <<"c", "a", "n", "d", "i", "d", "a", "t", "e", "B", "r", "i", "e", "f">>
FieldNames ==
    <<actorBrief, examinerBrief, markscheme, category, stationName, candidateBrief>>

\* "k1":t1,"k2":t2,... for keys ks and the texts ts of their values
RECURSIVE MembersText(_, _)
MembersText(ks, ts) ==
    IF ks = <<>> THEN <<>>
    ELSE Quoted(Head(ks)) \o <<":">> \o Head(ts)
         \o (IF Len(ks) > 1 THEN <<",">> ELSE <<>>)
         \o MembersText(Tail(ks), Tail(ts))

ObjectText(ks, ts) == <<"{">> \o MembersText(ks, ts) \o <<"}">>

\* one station in the output format of the prompt, vs its six field values
StationText(vs) == ObjectText(FieldNames, [i \in 1..6 |-> Quoted(vs[i])])

\* the record a station with field values vs decodes to
StationValue(vs) ==
    JObj([i \in 1..6 |-> [key |-> FieldNames[i], val |-> JStr(vs[i])]])

\* station records told apart by their first field
Fields(c) == <<<<c>>, <<"e">>, <<"m">>, <<"c">>, <<"s">>, <<"b">>>>

NL == "\n"

RespSingle == ObjectText(<<<<"0">>>>, <<StationText(Fields("a"))>>)
RespMulti ==
    FenceJson \o <<NL>>
    \o ObjectText(<<<<"1">>, <<"0">>>>,
                  <<StationText(Fields("b")), StationText(Fields("c"))>>)
    \o <<NL>> \o Fence
RespTruncated == FenceJson \o <<NL, "{">> \o Quoted(<<"0">>) \o <<":">>
RespProse == <<"S", "o", "r", "r", "y">>

\* what the completion may answer in a run of the pipeline
Responses == {RespSingle, RespMulti, RespTruncated, RespProse}

\* field values: plain, empty, padded, one backtick, a fence inside, a json fence
FieldValues ==
    {<<"x">>, <<>>, <<" ", "y", " ">>, <<BT>>, <<"u">> \o Fence \o <<"v">>,
     FenceJson}

\* the field values of single stations: the first and the last field vary
SingleStations ==
    {<<v1, <<"e">>, <<"m">>, <<"c">>, <<"s">>, v6>> :
        v1 \in FieldValues, v6 \in FieldValues}

SingleText(vs) == ObjectText(<<<<"0">>>>, <<StationText(vs)>>)

\* the keys of multi-station answers, in the order the model wrote them
KeyOrders ==
    {<<>>, <<<<"0">>, <<"1">>>>, <<<<"1">>, <<"0">>>>,
     <<<<"2">>, <<"0">>, <<"1">>>>, <<<<"1", "0">>, <<"2">>>>}

\* the station under key k carries k as its first field
MultiText(ks) ==
    ObjectText(ks, [i \in 1..Len(ks) |->
        StationText(<<ks[i], <<"e">>, <<"m">>, <<"c">>, <<"s">>, <<"b">>>>)])

\* valid JSON that is no mapping
Scalars == {Quoted(<<"x">>), <<"7">>, <<"[", "7", "]">>, LitNull}

\* an answer json.loads rejects: a mapping cut short
Undecodable == {<<"{">> \o Quoted(<<"0">>) \o <<":">>}

\* mappings whose entries are not stations: a field missing and one null,
\* an entry that is no object
Drifted ==
    {ObjectText(<<<<"0">>>>, <<ObjectText(<<actorBrief>>, <<LitNull>>)>>),
     ObjectText(<<<<"0">>>>, <<<<"7">>>>)}

ValidBases ==
    {SingleText(vs) : vs \in SingleStations}
    \cup {MultiText(ks) : ks \in KeyOrders}
    \cup Scalars
    \cup Drifted

\* an answer as the model may wrap it: as it is, in a json fence with or
\* without whitespace around, in a plain fence, in whitespace alone
WrapKinds == {"bare", "json", "json-tight", "plain", "space"}
Wrap(kind, r) ==
    CASE kind = "bare" -> r
      [] kind = "json" -> <<" ">> \o FenceJson \o <<NL>> \o r \o <<NL>> \o Fence \o <<NL>>
      [] kind = "json-tight" -> FenceJson \o r \o Fence
      [] kind = "plain" -> Fence \o <<NL>> \o r \o <<NL>> \o Fence
      [] kind = "space" -> <<NL, " ">> \o r \o <<" ", NL>>

\* what the completion may answer where the decoding alone is examined
ParseResponses ==
    {Wrap(kind, r) : kind \in WrapKinds, r \in ValidBases \cup Undecodable}

---------------------------------------------------------------------------
(* The pipeline *)

max_retries == 3
\* the seconds of one time.sleep; delays counts the sleeps
retry_delay == 5

Pdf == "application/pdf"
Docx == "application/vnd.openxmlformats-officedocument.wordprocessingml.document"
Plain == "text/plain"
Other == "image/png"

\* the content types the reading code has a branch for
Supported == {Pdf, Docx, Plain}
ContentTypes == Supported \cup {Other}

\* one st.error / st.warning / st.success call
Msg(level, what, text) == [level |-> level, what |-> what, text |-> text]

NoResponse == [raised |-> FALSE, data |-> "unset", error |-> "unset"]

Init ==
    /\ n_files \in 0..MaxFiles
    /\ file_type = "none"
    /\ pc = "files"
    /\ fi = 1
    /\ attempt = 0
    /\ data_list = <<>>
    /\ any_errors = FALSE
    /\ clicked = FALSE
    /\ ui = 0
    /\ upload_errors = FALSE
    /\ response = NoResponse
    /\ calls = 0
    /\ delays = 0
    /\ got = <<>>
    /\ before = <<>>
    /\ msgs = <<>>
    /\ status = <<>>
    /\ sent = <<>>
    /\ results = <<>>
    /\ store_failed = FALSE
    /\ summary = "none"
    /\ previewed = FALSE
    /\ messages = <<>>
    /\ chat_pc = "idle"
    /\ run_status = "none"
    /\ polls = 0

\* the for loop takes the next file: nothing of the previous file is kept
\* but data_list and any_errors
StartFile(type) ==
    /\ pc = "files"
    /\ fi <= n_files
    /\ file_type' = type
    /\ before' = data_list
    /\ UNCHANGED <<n_files, clicked, ui, upload_errors, response, sent,
                   results, store_failed, summary, previewed>>
    /\ UNCHANGED chat_vars

\* ReadUnsupported with break in the place of continue
ReadUnsupportedBreak ==
    \E type \in ContentTypes \ Supported :
        /\ StartFile(type)
        /\ msgs' = <<Msg("error", "unsupported", <<>>)>>
        /\ status' = Append(status, "unsupported")
        /\ fi' = n_files + 1
        /\ calls' = 0 /\ delays' = 0 /\ got' = <<>>
        /\ UNCHANGED <<pc, attempt, data_list, any_errors>>

\* the else branch: st.error and continue
ReadUnsupported ==
    \E type \in ContentTypes \ Supported :
        /\ StartFile(type)
        /\ msgs' = <<Msg("error", "unsupported", <<>>)>>
        /\ status' = Append(status, "unsupported")
        /\ fi' = fi + 1
        /\ calls' = 0 /\ delays' = 0 /\ got' = <<>>
        /\ UNCHANGED <<pc, attempt, data_list, any_errors>>

\* reading raises: st.error, any_errors = True and continue
ReadError ==
    \E type \in Supported :
        /\ StartFile(type)
        /\ msgs' = <<Msg("error", "read", <<>>)>>
        /\ status' = Append(status, "read_error")
        /\ any_errors' = TRUE
        /\ fi' = fi + 1
        /\ calls' = 0 /\ delays' = 0 /\ got' = <<>>
        /\ UNCHANGED <<pc, attempt, data_list>>

\* ReadOk with the attempt counter kept from the file before
ReadOkSharedCounter ==
    \E type \in Supported :
        /\ StartFile(type)
        /\ msgs' = <<>>
        /\ pc' = "attempt"
        /\ calls' = 0 /\ delays' = 0 /\ got' = <<>>
        /\ UNCHANGED <<fi, attempt, data_list, any_errors, status>>

\* text_content is read: the retry loop starts
ReadOk ==
    \E type \in Supported :
        /\ StartFile(type)
        /\ msgs' = <<>>
        /\ pc' = "attempt"
        /\ attempt' = 0
        /\ calls' = 0 /\ delays' = 0 /\ got' = <<>>
        /\ UNCHANGED <<fi, data_list, any_errors, status>>

InAttempt ==
    /\ pc = "attempt"
    /\ attempt < max_retries
    /\ UNCHANGED <<n_files, file_type, clicked, ui, upload_errors, response,
                   before, sent, results, store_failed, summary, previewed>>
    /\ UNCHANGED chat_vars

\* json_response and json.loads(json_response) for every answer of the model,
\* computed once: [ok, val] with ok = FALSE for JSONDecodeError
Decoded ==
    [content \in Responses \cup ParseResponses |->
        LET json_response == Clean(content)
            parsed_data == Loads(json_response)
        IN [json_response |-> json_response, ok |-> parsed_data.ok,
            val |-> parsed_data.val]]

\* the completion answers content and json.loads decodes it: the records
\* are appended, st.success, break
AttemptParsed(content) ==
    LET parsed == Decoded[content] IN
    /\ InAttempt
    /\ parsed.ok
    /\ calls' = calls + 1
    /\ got' = Append(got, content)
    /\ data_list' = data_list \o Flatten(parsed.val)
    /\ msgs' = Append(msgs, Msg("success", "parsed", <<>>))
    /\ status' = Append(status, "parsed")
    /\ pc' = "files"
    /\ fi' = fi + 1
    /\ UNCHANGED <<attempt, any_errors, delays>>

\* AttemptDecodeError with the sleep forgotten
AttemptDecodeErrorNoSleep(content) ==
    LET json_response == Decoded[content].json_response IN
    /\ InAttempt
    /\ ~Decoded[content].ok
    /\ calls' = calls + 1
    /\ got' = Append(got, content)
    /\ IF attempt < max_retries - 1
       THEN /\ msgs' = Append(msgs, Msg("warning", "retry", <<>>))
            /\ attempt' = attempt + 1
            /\ UNCHANGED <<pc, fi, any_errors, status, delays>>
       ELSE /\ msgs' = msgs \o <<Msg("error", "malformed", <<>>),
                                 Msg("error", "raw", json_response)>>
            /\ any_errors' = TRUE
            /\ status' = Append(status, "malformed")
            /\ pc' = "files"
            /\ fi' = fi + 1
            /\ UNCHANGED <<attempt, delays>>
    /\ UNCHANGED data_list

\* AttemptDecodeError retrying without counting the attempt
AttemptDecodeErrorUncounted(content) ==
    /\ InAttempt
    /\ ~Decoded[content].ok
    /\ calls' = calls + 1
    /\ got' = Append(got, content)
    /\ msgs' = Append(msgs, Msg("warning", "retry", <<>>))
    /\ delays' = delays + 1
    /\ UNCHANGED <<pc, fi, attempt, any_errors, status, data_list>>

\* the completion answers content and json.loads raises JSONDecodeError:
\* a warning and a sleep before the last attempt, the two errors at the last
AttemptDecodeError(content) ==
    LET json_response == Decoded[content].json_response IN
    /\ InAttempt
    /\ ~Decoded[content].ok
    /\ calls' = calls + 1
    /\ got' = Append(got, content)
    /\ IF attempt < max_retries - 1
       THEN /\ msgs' = Append(msgs, Msg("warning", "retry", <<>>))
            /\ delays' = delays + 1
            /\ attempt' = attempt + 1
            /\ UNCHANGED <<pc, fi, any_errors, status>>
       ELSE /\ msgs' = msgs \o <<Msg("error", "malformed", <<>>),
                                 Msg("error", "raw", json_response)>>
            /\ any_errors' = TRUE
            /\ status' = Append(status, "malformed")
            /\ pc' = "files"
            /\ fi' = fi + 1
            /\ UNCHANGED <<attempt, delays>>
    /\ UNCHANGED data_list

\* AttemptOtherError handled as a decode failure is: retried after a sleep
AttemptOtherErrorRetried ==
    /\ InAttempt
    /\ calls' = calls + 1
    /\ IF attempt < max_retries - 1
       THEN /\ msgs' = Append(msgs, Msg("warning", "retry", <<>>))
            /\ delays' = delays + 1
            /\ attempt' = attempt + 1
            /\ UNCHANGED <<pc, fi, any_errors, status>>
       ELSE /\ msgs' = Append(msgs, Msg("error", "processing", <<>>))
            /\ any_errors' = TRUE
            /\ status' = Append(status, "aborted")
            /\ pc' = "files"
            /\ fi' = fi + 1
            /\ UNCHANGED <<attempt, delays>>
    /\ UNCHANGED <<data_list, got>>

\* AttemptOtherError raised after the records of the answer were appended
AttemptOtherErrorAfterAppend ==
    \E content \in Responses :
        /\ InAttempt
        /\ Decoded[content].ok
        /\ calls' = calls + 1
        /\ data_list' = data_list \o Flatten(Decoded[content].val)
        /\ msgs' = Append(msgs, Msg("error", "processing", <<>>))
        /\ any_errors' = TRUE
        /\ status' = Append(status, "aborted")
        /\ pc' = "files"
        /\ fi' = fi + 1
        /\ UNCHANGED <<attempt, delays, got>>

\* the call, or reading its answer, raises anything else: st.error,
\* any_errors = True, break
AttemptOtherError ==
    /\ InAttempt
    /\ calls' = calls + 1
    /\ msgs' = Append(msgs, Msg("error", "processing", <<>>))
    /\ any_errors' = TRUE
    /\ status' = Append(status, "aborted")
    /\ pc' = "files"
    /\ fi' = fi + 1
    /\ UNCHANGED <<attempt, data_list, delays, got>>

\* the for loop over the files is over; what was observed of its last file
\* (file_type .. msgs) is no longer looked at
AfterFiles ==
    /\ pc = "files"
    /\ fi > n_files
    /\ file_type' = "none"
    /\ calls' = 0 /\ delays' = 0 /\ got' = <<>> /\ before' = <<>> /\ msgs' = <<>>
    /\ UNCHANGED <<n_files, fi, attempt, data_list, any_errors, response,
                   status, sent, results, store_failed>>
    /\ UNCHANGED chat_vars

\* nothing was uploaded
NoFiles ==
    /\ AfterFiles
    /\ n_files = 0
    /\ summary' = "No files uploaded."
    /\ pc' = "done"
    /\ UNCHANGED <<clicked, ui, upload_errors, previewed>>

\* data_list is empty: one of the two warnings
ReviewEmpty ==
    /\ AfterFiles
    /\ n_files > 0
    /\ data_list = <<>>
    /\ summary' = IF any_errors THEN "No data to upload due to errors"
                                ELSE "No data was parsed"
    /\ pc' = "done"
    /\ UNCHANGED <<clicked, ui, upload_errors, previewed>>

\* ReviewOnly with the upload loop outside the button's if
ReviewOnlyUploads ==
    /\ AfterFiles
    /\ data_list # <<>>
    /\ previewed' = TRUE
    /\ clicked' = FALSE
    /\ upload_errors' = FALSE
    /\ ui' = 1
    /\ pc' = "upload"
    /\ UNCHANGED summary

\* data_list is shown and the button is not pressed
ReviewOnly ==
    /\ AfterFiles
    /\ data_list # <<>>
    /\ previewed' = TRUE
    /\ clicked' = FALSE
    /\ summary' = "Parsed Data"
    /\ pc' = "done"
    /\ UNCHANGED <<ui, upload_errors>>

\* ReviewUpload with the preview and the button under "not any_errors"
ReviewUploadGated ==
    /\ AfterFiles
    /\ data_list # <<>>
    /\ ~any_errors
    /\ previewed' = TRUE
    /\ clicked' = TRUE
    /\ upload_errors' = FALSE
    /\ ui' = 1
    /\ pc' = "upload"
    /\ UNCHANGED summary

\* data_list is shown and the button is pressed: the upload loop starts
ReviewUpload ==
    /\ AfterFiles
    /\ data_list # <<>>
    /\ previewed' = TRUE
    /\ clicked' = TRUE
    /\ upload_errors' = FALSE
    /\ ui' = 1
    /\ pc' = "upload"
    /\ UNCHANGED summary

\* the answers of the store: execute() raises, or returns data and error
StoreResponses ==
    {[raised |-> TRUE, data |-> "unset", error |-> "unset"]}
    \cup [raised : {FALSE}, data : {"None", "empty", "rows"},
          error : {"None", "error"}]

\* response.data is not None or len(response.data) > 0:
\* len(None) raises TypeError
DataCondition(resp) ==
    IF resp.data # "None" THEN "True" ELSE "TypeError"

\* what is displayed for one record
Report(resp) ==
    IF resp.raised THEN "Failed"
    ELSE IF DataCondition(resp) = "TypeError" THEN "Failed"
    ELSE IF DataCondition(resp) = "True" THEN "Upserted"
    ELSE IF resp.error # "None" THEN "Failed"
    ELSE "NoOpIdempotent"

\* one turn of the upload loop
Upsert(resp) ==
    /\ pc = "upload"
    /\ ui <= Len(data_list)
    /\ sent' = Append(sent, data_list[ui])
    /\ response' = resp
    /\ results' = Append(results, Report(resp))
    /\ upload_errors' = (upload_errors \/ Report(resp) = "Failed")
    /\ store_failed' = (store_failed \/ resp.raised \/ resp.error = "error")
    /\ ui' = ui + 1
    /\ UNCHANGED <<n_files, file_type, pc, fi, attempt, data_list, any_errors,
                   clicked, calls, delays, got, before, msgs, status, summary,
                   previewed>>
    /\ UNCHANGED chat_vars

\* after the upload loop: the batch-level message
Finish ==
    /\ pc = "upload"
    /\ ui > Len(data_list)
    /\ summary' = IF ~upload_errors THEN "AllSucceeded" ELSE "PartialFailure"
    /\ pc' = "done"
    /\ UNCHANGED <<n_files, file_type, fi, attempt, data_list, any_errors,
                   clicked, ui, upload_errors, response, calls, delays, got,
                   before, msgs, status, sent, results, store_failed, previewed>>
    /\ UNCHANGED chat_vars

Next ==
    \/ ReadUnsupported
    \/ ReadError
    \/ ReadOk
    \/ \E content \in Responses : AttemptParsed(content)
    \/ \E content \in Responses : AttemptDecodeError(content)
    \/ AttemptOtherError
    \/ NoFiles
    \/ ReviewEmpty
    \/ ReviewOnly
    \/ ReviewUpload
    \/ \E resp \in StoreResponses : Upsert(resp)
    \/ Finish

Spec == Init /\ [][Next]_vars

\* every call the script makes returns or raises, and the script goes on to
\* its next statement: a step that can be taken is taken
SpecLive == Spec /\ WF_vars(Next)

\* one readable file, and every answer of ParseResponses for it
InitParse == Init /\ n_files = 1

NextParse ==
    \/ ReadOk
    \/ \E content \in ParseResponses : AttemptParsed(content)
    \/ \E content \in ParseResponses : AttemptDecodeError(content)

SpecParse == InitParse /\ [][NextParse]_vars

\* a run with at most one file, and every answer of ParseResponses for it
InitOne == Init /\ n_files <= 1

NextOne ==
    \/ ReadUnsupported
    \/ ReadError
    \/ ReadOk
    \/ \E content \in ParseResponses : AttemptParsed(content)
    \/ \E content \in ParseResponses : AttemptDecodeError(content)
    \/ AttemptOtherError
    \/ NoFiles
    \/ ReviewEmpty
    \/ ReviewOnly
    \/ ReviewUpload
    \/ \E resp \in StoreResponses : Upsert(resp)
    \/ Finish

SpecOne == InitOne /\ [][NextOne]_vars

---------------------------------------------------------------------------
(* The chat handler *)

\* run.status as the assistants service reports it
RunStatuses ==
    {"queued", "in_progress", "completed", "failed", "cancelled", "expired"}

\* what runs.retrieve may answer after it answered s: a run that ended stays
\* as it ended, a run in progress is not queued again
Successors(s) ==
    CASE s = "queued" -> RunStatuses
      [] s = "in_progress" -> RunStatuses \ {"queued"}
      [] OTHER -> {s}

\* what the user may ask and the assistant may answer
Prompts == {"p", "q"}
Answers == {"a", "b"}

ChatMessage(role, content) == [role |-> role, content |-> content]

\* st.chat_input returns a prompt: it is appended to the session's messages,
\* a thread and a run are created
Ask(prompt) ==
    /\ chat_pc = "idle"
    /\ Len(messages) < 2 * MaxChats
    /\ messages' = Append(messages, ChatMessage("user", prompt))
    /\ run_status' = "queued"
    /\ polls' = 0
    /\ chat_pc' = "polling"
    /\ UNCHANGED pipeline_vars

\* one turn of the while loop: run.status is not "completed", the run is
\* retrieved again
Retrieve(s) ==
    /\ chat_pc = "polling"
    /\ run_status # "completed"
    /\ polls < MaxPolls
    /\ s \in Successors(run_status)
    /\ run_status' = s
    /\ polls' = polls + 1
    /\ UNCHANGED <<messages, chat_pc>>
    /\ UNCHANGED pipeline_vars

\* the while loop is left: the assistant's message is read and appended
Reply(text) ==
    /\ chat_pc = "polling"
    /\ run_status = "completed"
    /\ messages' = Append(messages, ChatMessage("assistant", text))
    /\ chat_pc' = "idle"
    /\ UNCHANGED <<run_status, polls>>
    /\ UNCHANGED pipeline_vars

\* a session in which no file is uploaded
InitChat == Init /\ n_files = 0

NextChat ==
    \/ \E prompt \in Prompts : Ask(prompt)
    \/ \E s \in RunStatuses : Retrieve(s)
    \/ \E text \in Answers : Reply(text)

SpecChat == InitChat /\ [][NextChat]_vars

---------------------------------------------------------------------------
(* What is checked *)

Last(s) == s[Len(s)]

\* the loop has just left a file with status st, and has not taken the next
JustEnded(st) ==
    /\ pc = "files"
    /\ file_type # "none"
    /\ status # <<>>
    /\ Last(status) = st

Retries(n) == [i \in 1..n |-> Msg("warning", "retry", <<>>)]

DecodeFails(answers) == \A j \in 1..Len(answers) : ~Decoded[answers[j]].ok

\* C1: a document whose answers fail to decode on attempts 1..k-1 and decode
\* on attempt k (k <= max_retries) costs exactly k completion calls and k-1
\* sleeps, every attempt has an answer of its own, and data_list grows by
\* exactly the records of the k-th answer. While the retry loop runs, every
\* answer so far failed, each failure was followed by one sleep, and data_list
\* is as it was when the file was started.
C1Theorem ==
    /\ pc = "attempt" =>
          /\ attempt < max_retries
          /\ calls = attempt /\ delays = attempt /\ Len(got) = attempt
          /\ DecodeFails(got)
          /\ data_list = before
    /\ JustEnded("parsed") =>
          LET k == Len(got) IN
          /\ k \in 1..max_retries
          /\ calls = k /\ delays = k - 1
          /\ DecodeFails(SubSeq(got, 1, k - 1))
          /\ Decoded[got[k]].ok
          /\ data_list = before \o Flatten(Loads(Clean(got[k])).val)
          /\ msgs = Retries(k - 1) \o <<Msg("success", "parsed", <<>>)>>

\* two different undecodable answers, then two stations at the third attempt
C1Witness ==
    /\ JustEnded("parsed")
    /\ got = <<RespTruncated, RespProse, RespMulti>>
    /\ calls = 3 /\ delays = 2
    /\ data_list = before \o <<StationValue(Fields("b")), StationValue(Fields("c"))>>

\* C2: a document whose answer fails to decode on every attempt costs exactly
\* max_retries calls and max_retries - 1 sleeps, shows a retry warning after
\* each attempt but the last, shows the error and the raw text of the last
\* answer after the last attempt, and sets any_errors.
C2Claim ==
    JustEnded("malformed") =>
        /\ calls = max_retries /\ Len(got) = max_retries
        /\ delays = max_retries - 1
        /\ any_errors
        /\ msgs = Retries(max_retries - 1)
                  \o <<Msg("error", "malformed", <<>>),
                       Msg("error", "raw", got[max_retries])>>

\* a completion call that raised: it counts as a call and left no answer
AbortStep == calls' = calls + 1 /\ got' = got

\* C3: when an attempt fails with anything but a decode failure, the
\* document is left at once: the loop goes to the next file, no sleep is
\* made, the error is shown, any_errors is set and data_list is what it was
\* when the file was started.
C3Theorem ==
    [][AbortStep =>
        /\ pc = "attempt" /\ pc' = "files" /\ fi' = fi + 1
        /\ delays' = delays
        /\ any_errors'
        /\ msgs' = Append(msgs, Msg("error", "processing", <<>>))
        /\ status' = Append(status, "aborted")
        /\ data_list' = data_list /\ data_list' = before']_vars

\* the second attempt raised: one sleep before it, none after, one attempt unspent
C3Witness ==
    /\ JustEnded("aborted")
    /\ calls = 2 /\ Len(got) = 1 /\ delays = 1
    /\ any_errors
    /\ data_list = before

Count(st) == Cardinality({i \in DOMAIN status : status[i] = st})

\* C4: a file of an unsupported type, or one that cannot be read, is reported
\* and skipped without a completion call and without touching data_list; the
\* loop goes on, every file of the batch gets a status, and every file that
\* is parsed adds its records to those already there.
C4Theorem ==
    /\ (JustEnded("unsupported") \/ JustEnded("read_error")) =>
          /\ calls = 0 /\ delays = 0 /\ got = <<>>
          /\ data_list = before
          /\ msgs = <<Msg("error",
                          IF file_type \in Supported THEN "read" ELSE "unsupported",
                          <<>>)>>
    /\ (pc = "files" /\ file_type \notin Supported \cup {"none"}) =>
          Last(status) = "unsupported"
    /\ pc = "files" => Len(status) = fi - 1 /\ fi <= n_files + 1
    /\ pc \in {"upload", "done"} => Len(status) = n_files
    /\ JustEnded("parsed") =>
          data_list = before \o Flatten(Decoded[Last(got)].val)
    /\ Len(data_list) >= Count("parsed")

\* an unsupported file between two parsed files
C4Witness ==
    /\ pc = "files"
    /\ status = <<"parsed", "unsupported", "parsed">>
    /\ Len(before) = 1
    /\ Len(data_list) = 3

\* the run went through the upload loop
Published == summary \in {"AllSucceeded", "PartialFailure"}

\* C5: after a confirmed publish every record of the batch was handed to
\* upsert once, in batch order, each with a report of its own, and the batch
\* result is PartialFailure exactly when some upsert failed.
C5Claim ==
    Published =>
        /\ sent = data_list
        /\ Len(results) = Len(data_list)
        /\ (summary = "PartialFailure") = store_failed

\* C6: when the store answers without data and without error, the record is
\* reported NoOpIdempotent and does not count as failed.
C6Claim ==
    (results # <<>> /\ ~response.raised /\ response.data = "None"
        /\ response.error = "None") =>
        /\ Last(results) = "NoOpIdempotent"
        /\ (~store_failed => ~upload_errors)

\* C7: a record whose upsert raised or was answered with an error, whatever
\* the data, is reported Failed, and the batch result is then PartialFailure.
C7Claim ==
    /\ (results # <<>> /\ (response.raised \/ response.error = "error")) =>
          Last(results) = "Failed"
    /\ (Published /\ store_failed) => summary = "PartialFailure"

\* the mappings among Responses: their text and their stations in key order
Mappings ==
    {[text |-> RespSingle, stations |-> <<Fields("a")>>],
     [text |-> RespMulti, stations |-> <<Fields("b"), Fields("c")>>]}

\* C8: an answer that is a mapping with N distinct integer keys adds exactly
\* its N stations to data_list, in the order the keys are written (not sorted),
\* after the records of the files before it.
C8Theorem ==
    \A m \in Mappings :
        (JustEnded("parsed") /\ Last(got) = m.text) =>
            data_list = before \o [i \in 1..Len(m.stations) |->
                                      StationValue(m.stations[i])]

\* the two stations of keys "1", "0", in that order, after one earlier record
C8Witness ==
    /\ JustEnded("parsed")
    /\ Last(got) = RespMulti
    /\ Len(before) = 1
    /\ data_list = before \o <<StationValue(Fields("b")), StationValue(Fields("c"))>>

\* C9: a well-formed single-station answer, wrapped or not, gives one record
\* whose six field values are those of the answer, character for character.
C9Claim ==
    \A vs \in SingleStations, kind \in WrapKinds :
        (got # <<>> /\ got[1] = Wrap(kind, SingleText(vs))) =>
            /\ status = <<"parsed">>
            /\ data_list = <<StationValue(vs)>>

\* C10: a valid JSON answer wrapped in a json fence, with or without
\* whitespace around it, decodes at the first attempt, without a retry, to the
\* records the answer gives unwrapped, in the same order.
C10Theorem ==
    \A r \in ValidBases, kind \in {"json", "json-tight"} :
        (got # <<>> /\ got[1] = Wrap(kind, r)) =>
            /\ Loads(r).ok
            /\ status = <<"parsed">>
            /\ calls = 1 /\ delays = 0
            /\ data_list = Flatten(Decoded[r].val)

\* three stations under the keys "2", "0", "1", fenced
C10Witness ==
    /\ got = <<Wrap("json", MultiText(<<<<"2">>, <<"0">>, <<"1">>>>))>>
    /\ status = <<"parsed">>
    /\ Len(data_list) = 3
    /\ data_list[1].items[1].val.text = <<"2">>

Range(s) == {s[i] : i \in DOMAIN s}

\* a valid station record: an object with the six fields, each a string
IsStationRecord(v) ==
    /\ v.kind = "obj"
    /\ \A f \in Range(FieldNames) :
          \E i \in DOMAIN v.items :
              v.items[i].key = f /\ v.items[i].val.kind = "str"

\* the field values of FieldValues as they are once the fences are removed
\* from the answer that carries them
CleanedFieldValues ==
    {<<"x">>, <<>>, <<" ", "y", " ">>, <<BT>>, <<"u", "v">>}

\* the values the cleaned answers of ParseResponses carry, written out by
\* hand: the stations, the values that are no mapping, the entries that are
\* no station
AnswerRecords ==
    {StationValue(<<v1, <<"e">>, <<"m">>, <<"c">>, <<"s">>, v6>>) :
        v1 \in CleanedFieldValues, v6 \in CleanedFieldValues}
    \cup {StationValue(<<k, <<"e">>, <<"m">>, <<"c">>, <<"s">>, <<"b">>>>) :
             k \in UNION {Range(ks) : ks \in KeyOrders}}
    \cup {JStr(<<"x">>), JNum(<<"7">>), JLit(LitNull),
          JArr(<<[key |-> <<>>, val |-> JNum(<<"7">>)]>>)}
    \cup {JObj(<<[key |-> actorBrief, val |-> JLit(LitNull)]>>)}

\* C11 as stated: every record placed in data_list, and every record handed
\* to upsert, is a valid station record: the six fields, each a string.
C11Claim ==
    /\ \A i \in DOMAIN data_list : IsStationRecord(data_list[i])
    /\ \A i \in DOMAIN sent : IsStationRecord(sent[i])

\* C11 amended: every record placed in data_list is a value decoded from a
\* cleaned answer and taken as it is (a member value of the decoded mapping,
\* or the decoded value itself when it is no mapping), and every record handed
\* to upsert is the record of data_list at that position; the six fields are
\* not checked, so that a record of a mapping of stations is a station record
\* and any other record goes through as it was decoded.
C11Theorem ==
    /\ \A i \in DOMAIN data_list : data_list[i] \in AnswerRecords
    /\ Len(sent) <= Len(data_list)
    /\ sent = SubSeq(data_list, 1, Len(sent))
    /\ \A vs \in SingleStations :
          (JustEnded("parsed") /\ Last(got) = SingleText(vs)) =>
              /\ Len(data_list) = 1
              /\ IsStationRecord(data_list[1])

\* a record with one null field and five fields missing was handed to upsert
C11Witness ==
    /\ pc = "done"
    /\ sent = <<JObj(<<[key |-> actorBrief, val |-> JLit(LitNull)]>>)>>
    /\ sent = data_list
    /\ ~IsStationRecord(sent[1])

\* C13: an upsert is issued only when data_list is not empty, was displayed
\* by st.json and the button was pressed; with the button not pressed, or
\* with data_list empty, the store receives no call.
C13Theorem ==
    /\ (pc = "upload" \/ sent # <<>> \/ response # NoResponse) =>
          (data_list # <<>> /\ previewed /\ clicked)
    /\ (~clicked \/ data_list = <<>>) =>
          (sent = <<>> /\ results = <<>> /\ response = NoResponse
           /\ pc # "upload" /\ ~Published)

\* two records were handed to upsert after the preview and the button
C13Witness ==
    /\ Len(sent) = 2
    /\ previewed
    /\ clicked
    /\ Len(data_list) >= 2

\* how the processing of a file ends when an error left it without records
ErrorStatuses == {"unsupported", "read_error", "malformed", "aborted"}

\* C14: once the loop over the files is over, any_errors is set exactly when
\* some file ended without records because of an error, of whichever kind:
\* unsupported type, read error, malformed after the retries, other failure.
C14Claim ==
    fi > n_files =>
        (any_errors <=> \E i \in DOMAIN status : status[i] \in ErrorStatuses)

\* the loop over the files is over and the script is at "if data_list:"
AtReview == pc = "files" /\ fi > n_files /\ n_files > 0

\* C15 as stated: in a run in which any_errors is set the button is not
\* offered, so it is never pressed, whatever the other files produced.
C15Claim ==
    any_errors => (~clicked /\ (AtReview => ~ENABLED ReviewUpload))

\* C15 amended: the preview and the button are offered exactly when data_list
\* is not empty, in a run in which any_errors is set too; any_errors only
\* chooses between the two warnings shown when data_list is empty.
C15Theorem ==
    /\ (AtReview /\ data_list # <<>>) => ENABLED ReviewUpload
    /\ (AtReview /\ data_list = <<>>) =>
          (~ENABLED ReviewUpload /\ ~ENABLED ReviewOnly)
    /\ previewed <=> (pc \in {"upload", "done"} /\ data_list # <<>>)
    /\ (pc = "done" /\ n_files > 0 /\ data_list = <<>>) =>
          summary = IF any_errors THEN "No data to upload due to errors"
                                  ELSE "No data was parsed"

\* one file was parsed, another failed, and the button was pressed
C15Witness ==
    /\ any_errors
    /\ Count("parsed") >= 1
    /\ clicked
    /\ sent # <<>>

\* how the processing of a file may end
TerminalStatuses == {"parsed"} \cup ErrorStatuses

\* the part of the run the script is in, and what is left to do in it: the
\* files not yet taken, each worth max_retries + 2, and the attempts left for
\* the file at hand; the records not yet handed to upsert
Phase ==
    CASE pc \in {"files", "attempt"} -> 2
      [] pc = "upload" -> 1
      [] OTHER -> 0
Work ==
    CASE pc = "files" ->
           (n_files + 1 - fi) * (max_retries + 2) + max_retries + 1
      [] pc = "attempt" ->
           (n_files + 1 - fi) * (max_retries + 2) + max_retries - attempt
      [] pc = "upload" -> Len(data_list) + 1 - ui
      [] OTHER -> 0
Decreases == Phase' < Phase \/ (Phase' = Phase /\ Work' < Work)

\* C16: a run ends, given that every call returns or raises: every step
\* brings the end nearer, the script is never stuck before the end, and the
\* end is reached; every file the loop has left has one terminal status, so
\* that at the end every uploaded file has exactly one.
C16Theorem ==
    /\ [][Decreases]_vars
    /\ [](Work >= 0 /\ (pc # "done" => ENABLED Next))
    /\ [](/\ fi <= n_files + 1
          /\ Len(status) = fi - 1
          /\ \A i \in DOMAIN status : status[i] \in TerminalStatuses
          /\ pc \in {"upload", "done"} => Len(status) = n_files)
    /\ <>(pc = "done")

\* three files, ended in three ways, and the run is over
C16Witness ==
    /\ pc = "done"
    /\ status = <<"read_error", "malformed", "parsed">>

\* the answers of Scalars and the values they stand for
ScalarAnswers ==
    {[text |-> Quoted(<<"x">>), value |-> JStr(<<"x">>)],
     [text |-> <<"7">>, value |-> JNum(<<"7">>)],
     [text |-> <<"[", "7", "]">>,
      value |-> JArr(<<[key |-> <<>>, val |-> JNum(<<"7">>)]>>)],
     [text |-> LitNull, value |-> JLit(LitNull)]}

\* C17: an answer that decodes to a value that is no mapping is a success:
\* it adds exactly one record, the value itself, at the first attempt, with
\* no retry and no sleep, and any_errors stays unset.
C17Theorem ==
    \A a \in ScalarAnswers, kind \in WrapKinds :
        (got # <<>> /\ got[1] = Wrap(kind, a.text)) =>
            /\ status = <<"parsed">>
            /\ data_list = <<a.value>>
            /\ calls = 1 /\ delays = 0
            /\ msgs = <<Msg("success", "parsed", <<>>)>>
            /\ ~any_errors

\* the array [7] in a plain fence became the one record of data_list
C17Witness ==
    /\ got = <<Wrap("plain", <<"[", "7", "]">>)>>
    /\ status = <<"parsed">>
    /\ Len(data_list) = 1
    /\ data_list[1].kind = "arr"
    /\ ~any_errors

\* C18: each readable file has its own attempt counter and its full budget,
\* whatever happened to the files before it: inside the retry loop the counter
\* is the number of failed calls made for this file, and a file is given up as
\* malformed only after max_retries calls of its own; a file that ends
\* malformed or aborted leaves the records of the earlier files as they were
\* and the loop ready to take the next file.
C18Theorem ==
    /\ pc = "attempt" =>
          /\ attempt < max_retries
          /\ attempt = calls /\ attempt = delays /\ attempt = Len(got)
    /\ JustEnded("malformed") => calls = max_retries
    /\ \A st \in {"malformed", "aborted"} :
          JustEnded(st) =>
              /\ data_list = before
              /\ fi = Len(status) + 1
              /\ fi <= n_files => (ENABLED ReadOk /\ ~ENABLED NoFiles
                                   /\ ~ENABLED ReviewEmpty /\ ~ENABLED ReviewOnly
                                   /\ ~ENABLED ReviewUpload)
    /\ file_type # "none" =>
          /\ Len(before) <= Len(data_list)
          /\ SubSeq(data_list, 1, Len(before)) = before

\* the first file used up its attempts, the second was parsed, the third
\* aborted at its third call and the records of the second are still there
C18Witness ==
    /\ status = <<"malformed", "parsed", "aborted">>
    /\ JustEnded("aborted")
    /\ data_list # <<>>
    /\ calls = max_retries

\* C19: data_list changes only in an attempt whose answer decoded, and then
\* by all the records of that one answer, appended to what the files before
\* had left; an attempt that fails, and a file that ends without being
\* parsed, leave data_list as it was.
C19Theorem ==
    [][/\ data_list' # data_list =>
             /\ pc = "attempt"
             /\ got' # got /\ got' = Append(got, Last(got'))
             /\ Decoded[Last(got')].ok
             /\ DecodeFails(got)
             /\ data_list = before
             /\ data_list' = data_list \o Flatten(Decoded[Last(got')].val)
             /\ status' = Append(status, "parsed")
       /\ (calls' = calls + 1 /\ status' # Append(status, "parsed")) =>
             data_list' = data_list
       /\ (status' # status /\ Last(status') \in ErrorStatuses) =>
             (data_list' = data_list /\ data_list' = before')
      ]_vars

\* a file was given up after three answers that did not decode, and data_list
\* still holds the records of the file before it, and nothing else
C19Witness ==
    /\ JustEnded("malformed")
    /\ Len(got) = max_retries
    /\ before # <<>>
    /\ data_list = before

\* the statuses in which a run has ended
EndedStatuses == {"completed", "failed", "cancelled", "expired"}

\* C20: once the run is read as ended, whether completed, failed, cancelled
\* or expired, the next step of the chat handler leaves the polling loop.
C20Claim ==
    [][(chat_pc = "polling" /\ run_status \in EndedStatuses) =>
           chat_pc' = "idle"]_vars

===========================================================================
